---- MODULE Spec2Model ----
(***************************************************************************)
(* Model of private_dot_claude/hooks/executable_safety-hook.py: the        *)
(* PreToolUse safety hook.  One run of main() reads one event from stdin,  *)
(* loads safety-rules.json and writes at most one verdict to stdout.       *)
(*                                                                         *)
(* Text is modelled as a sequence of whitespace-separated tokens; a token  *)
(* is the sequence of its '/'-separated components, so "rm" is <<"rm">>,   *)
(* "a/node_modules" is <<"a", "node_modules">> and "/" is <<"", "">>.      *)
(* A regular expression of the rule file is modelled as a finite set of    *)
(* token sequences joined by \s+ (alts), optionally anchored as ^\s*.     *)
(***************************************************************************)
EXTENDS Integers, Sequences, FiniteSets, TLC

VARIABLES stdin, rulefile, pc, loaded, command, inners, idx, stdout, exit,
          denyLog, warnLog

vars == <<stdin, rulefile, pc, loaded, command, inners, idx, stdout, exit,
          denyLog, warnLog>>

\* Bounds of the input space.
MaxSegs == 2
MaxDeny == 2

----------------------------------------------------------------------------
\* Tokens and text

W(s) == <<s>>

Quotes == {W("'"), W("\"")}

ShellNames == {W("sh"), W("bash")}

RECURSIVE Flatten(_)
Flatten(segs) ==
  IF segs = <<>> THEN <<>>
  ELSE IF Len(segs) = 1 THEN segs[1]
  ELSE segs[1] \o <<W(";")>> \o Flatten(Tail(segs))

----------------------------------------------------------------------------
\* re.search over token text

Occurs(alt, text, i) ==
  /\ i + Len(alt) - 1 <= Len(text)
  /\ SubSeq(text, i, i + Len(alt) - 1) = alt

re_search(regex, text) ==
  \E alt \in regex.alts :
    \E i \in 1..(Len(text) + 1) :
      /\ regex.anch => i = 1
      /\ Occurs(alt, text, i)

\* (-rf|-fr|-r\s+-f|-f\s+-r)
RmFlagForms ==
  { <<W("-rf")>>, <<W("-fr")>>, <<W("-r"), W("-f")>>, <<W("-f"), W("-r")>> }

\* (\S+/)?{target}\b at the start of a token
path_hits(tok, target) ==
  \/ tok[1] = target
  \/ \E k \in 2..Len(tok) : tok[k] = target /\ ~(k = 2 /\ tok[1] = "")

\* re.search(rf"rm\s+(-rf|-fr|-r\s+-f|-f\s+-r)\s+(\S+/)?{target}\b", command)
safe_target_search(target, text) ==
  \E f \in RmFlagForms :
    \E i \in 1..Len(text) :
      LET pat == <<W("rm")>> \o f
          p   == i + Len(pat)
      IN  /\ Occurs(pat, text, i)
          /\ p <= Len(text)
          /\ path_hits(text[p], target)

----------------------------------------------------------------------------
\* extract_inner_commands

\* position of the first token equal to q at or after j, 0 if there is none
RECURSIVE NextQuote(_, _, _)
NextQuote(text, q, j) ==
  IF j > Len(text) THEN 0
  ELSE IF text[j] = q THEN j
  ELSE NextQuote(text, q, j + 1)

RECURSIVE extract_from(_, _)
extract_from(text, i) ==
  IF i + 2 > Len(text) THEN <<>>
  ELSE IF /\ text[i] \in ShellNames
          /\ text[i + 1] = W("-c")
          /\ text[i + 2] \in Quotes
          /\ NextQuote(text, text[i + 2], i + 3) # 0
       THEN LET j == NextQuote(text, text[i + 2], i + 3)
            IN  <<SubSeq(text, i + 3, j - 1)>> \o extract_from(text, j + 1)
       ELSE extract_from(text, i + 1)

extract_inner_commands(text) == extract_from(text, 1)

----------------------------------------------------------------------------
\* check_deny

None == <<>>
Some(r) == <<r>>

DeletionReason == "Mass recursive deletion"

safe_targets(rules) == rules.safe_rm_targets

override(text, rules) ==
  \E k \in 1..Len(safe_targets(rules)) :
    safe_target_search(safe_targets(rules)[k], text)

\* ret: the returned value; n: the number of deny rules whose regex was searched
RECURSIVE check_deny_from(_, _, _)
check_deny_from(i, text, rules) ==
  IF i > Len(rules.deny) THEN [ret |-> None, n |-> Len(rules.deny)]
  ELSE LET rule == rules.deny[i]
       IN  IF re_search(rule.regex, text)
           THEN IF rule.reason = DeletionReason /\ override(text, rules)
                THEN [ret |-> None, n |-> i]
                ELSE [ret |-> Some(rule.reason), n |-> i]
           ELSE check_deny_from(i + 1, text, rules)

\* the loop keeps going and the last matching rule decides
check_deny_last(text, rules) ==
  LET M == {i \in 1..Len(rules.deny) : re_search(rules.deny[i].regex, text)}
  IN  IF M = {} THEN [ret |-> None, n |-> Len(rules.deny)]
      ELSE LET l == CHOOSE x \in M : \A y \in M : y <= x
               rule == rules.deny[l]
           IN  [ret |-> IF rule.reason = DeletionReason /\ override(text, rules)
                        THEN None ELSE Some(rule.reason),
                n   |-> Len(rules.deny)]

check_deny(text, rules) == check_deny_from(1, text, rules)

\* `if reason:`
Truthy(ret) == ret # None /\ ret[1] # ""

\* first matching warn rule, 0 if none
RECURSIVE first_warn(_, _, _, _)
first_warn(i, text, warns, field) ==
  IF i > Len(warns) THEN 0
  ELSE IF re_search(warns[i][field], text) THEN i
  ELSE first_warn(i + 1, text, warns, field)

output_deny(reason, suffix) ==
  [permissionDecision |-> "deny", prefix |-> "BLOCKED: ", text |-> reason, suffix |-> suffix]

output_warn(message) ==
  [permissionDecision |-> "none", prefix |-> "WARNING: ", text |-> message, suffix |-> ""]

WrapperSuffix == " (inside shell wrapper)"

----------------------------------------------------------------------------
\* Inputs: the commands of the event

RmSafe     == <<W("rm"), W("-rf"), W("node_modules")>>
RmSafeDeep == <<W("rm"), W("-f"), W("-r"), <<"a", "node_modules">>>>
RmRoot     == <<W("rm"), W("-rf"), <<"", "">>>>
Push       == <<W("git"), W("push")>>
Curl       == <<W("curl")>>

SimpleSegs == {RmSafe, RmSafeDeep, RmRoot, Push, Curl}

WrapBodies == {RmRoot, Push, Curl}

Wrap(sh, q, body) == <<sh, W("-c"), q>> \o body \o <<q>>

WrappedSegs ==
  {Wrap(W("sh"), W("'"), b) : b \in WrapBodies}
    \cup {Wrap(W("bash"), W("\""), Push)}

\* a wrapper whose quote is never closed
Unterminated == <<W("sh"), W("-c"), W("'")>> \o Curl

Segs == SimpleSegs \cup WrappedSegs \cup {Unterminated}

SegLists == UNION {[1..n -> Segs] : n \in 0..MaxSegs}

Commands == {Flatten(sl) : sl \in SegLists}

FilePaths == {<<>>, <<W(".env")>>, <<W("README")>>}

\* Inputs: the content of safety-rules.json

RxRm       == [anch |-> FALSE,
               alts |-> {<<W("rm"), f>> : f \in {W("-rf"), W("-fr"), W("-r"), W("-f")}}]
RxPushAnch == [anch |-> TRUE,  alts |-> {Push}]
RxCurlAnch == [anch |-> TRUE,  alts |-> {Curl}]
RxCurl     == [anch |-> FALSE, alts |-> {Curl}]
RxEnv      == [anch |-> FALSE, alts |-> {<<W(".env")>>}]

RuleDeletion == [regex |-> RxRm,       reason |-> DeletionReason]
RulePush     == [regex |-> RxPushAnch, reason |-> "Force push"]
RuleSilent   == [regex |-> RxCurlAnch, reason |-> ""]

DenyRules == {RuleDeletion, RulePush, RuleSilent}

DenyLists == UNION {[1..n -> DenyRules] : n \in 0..MaxDeny}

WarnCurl     == [regex |-> RxCurl,     message |-> "Network access"]
WarnCurlAnch == [regex |-> RxCurlAnch, message |-> "Download"]

WarnCommandLists == {<<>>, <<WarnCurlAnch, WarnCurl>>}

WarnEnv == [pattern |-> RxEnv, message |-> "Secrets file"]

SafeTargetLists == {<<>>, <<"node_modules">>}

RuleDict(hd, d, wc, wf, st) ==
  [kind |-> "dict", has_deny |-> hd, deny |-> d, warn_commands |-> wc,
   warn_files |-> wf, safe_rm_targets |-> st]

NoRules(k) ==
  [kind |-> k, has_deny |-> FALSE, deny |-> <<>>, warn_commands |-> <<>>,
   warn_files |-> <<>>, safe_rm_targets |-> <<>>]

RuleFiles ==
  {NoRules(k) : k \in {"missing", "invalid", "nondict"}}
    \cup {RuleDict(FALSE, <<>>, wc, <<WarnEnv>>, <<>>) : wc \in WarnCommandLists}
    \cup {RuleDict(TRUE, d, wc, <<WarnEnv>>, st) :
            d \in DenyLists, wc \in WarnCommandLists, st \in SafeTargetLists}

\* Inputs: what stdin holds

ToolNames == {"", "Bash", "Read", "Edit", "Write", "Glob"}

FileTools == {"Read", "Edit", "Write"}

Envelope(k, tn, ti, c, f) ==
  [kind |-> k, tool_name |-> tn, tool_input |-> ti, command |-> c, file_path |-> f]

Envelopes ==
  {Envelope(k, "", "missing", <<>>, <<>>) : k \in {"unparsable", "nonobject"}}
    \cup {Envelope("object", tn, ti, <<>>, <<>>) :
            tn \in ToolNames, ti \in {"missing", "nonmapping"}}
    \cup {Envelope("object", "Bash", "mapping", c, <<>>) : c \in Commands}
    \cup {Envelope("object", tn, "mapping", <<>>, f) :
            tn \in ToolNames \ {"Bash"}, f \in FilePaths}

----------------------------------------------------------------------------
\* The run of main()

Init ==
  /\ stdin \in Envelopes
  /\ rulefile \in RuleFiles
  /\ pc = "start"
  /\ loaded = FALSE
  /\ command = <<>>
  /\ inners = <<>>
  /\ idx = 0
  /\ stdout = <<>>
  /\ exit = "running"
  /\ denyLog = <<>>
  /\ warnLog = <<>>

Finish(status) ==
  /\ pc' = "done"
  /\ exit' = status

\* hook_input = json.load(sys.stdin), except (JSONDecodeError, EOFError): sys.exit(0)
main_read_input ==
  /\ pc = "start"
  /\ IF stdin.kind = "unparsable"
     THEN Finish("clean")
     ELSE pc' = "fields" /\ exit' = exit
  /\ UNCHANGED <<stdin, rulefile, loaded, command, inners, idx, stdout, denyLog, warnLog>>

\* hook_input.get("tool_name", ""), hook_input.get("tool_input", {})
main_get_fields ==
  /\ pc = "fields"
  /\ IF stdin.kind # "object"
     THEN Finish("failed")
     ELSE pc' = "load" /\ exit' = exit
  /\ UNCHANGED <<stdin, rulefile, loaded, command, inners, idx, stdout, denyLog, warnLog>>

\* load_rules(): open() and json.load() raise out of main
load_rules_ok(rf) == rf.kind \notin {"missing", "invalid"}

main_load_rules ==
  /\ pc = "load"
  /\ IF load_rules_ok(rulefile)
     THEN pc' = "dispatch" /\ exit' = exit /\ loaded' = TRUE
     ELSE Finish("failed") /\ loaded' = loaded
  /\ UNCHANGED <<stdin, rulefile, command, inners, idx, stdout, denyLog, warnLog>>

\* `if command:` / `if file_path:`
\* the emptiness test is dropped
has_text_always(s) == TRUE

has_text(s) == s # <<>>

\* tool_input.get(...) needs a mapping; a missing tool_input defaults to {}
can_get(ti) == ti # "nonmapping"

main_dispatch ==
  /\ pc = "dispatch"
  /\ IF stdin.tool_name = "Bash"
     THEN IF ~can_get(stdin.tool_input)
          THEN Finish("failed") /\ command' = command
          ELSE IF has_text(stdin.command)
               THEN pc' = "check_bash" /\ exit' = exit /\ command' = stdin.command
               ELSE Finish("clean") /\ command' = command
     ELSE IF stdin.tool_name \in FileTools
          THEN IF ~can_get(stdin.tool_input)
               THEN Finish("failed") /\ command' = command
               ELSE IF has_text(stdin.file_path)
                    THEN pc' = "check_file" /\ exit' = exit /\ command' = stdin.file_path
                    ELSE Finish("clean") /\ command' = command
          ELSE Finish("clean") /\ command' = command
  /\ UNCHANGED <<stdin, rulefile, loaded, inners, idx, stdout, denyLog, warnLog>>

\* rules["deny"] needs a dict that has the key
can_deny(rf) == rf.kind = "dict" /\ rf.has_deny

LogEntry(text, r) == [text |-> text, ret |-> r.ret, n |-> r.n]

\* check_bash: deny rules against the main command
check_bash_full ==
  /\ pc = "check_bash"
  /\ IF ~can_deny(rulefile)
     THEN /\ Finish("failed")
          /\ UNCHANGED <<stdout, denyLog, inners, idx>>
     ELSE LET r == check_deny(command, rulefile)
          IN  /\ denyLog' = Append(denyLog, LogEntry(command, r))
              /\ IF Truthy(r.ret)
                 THEN /\ stdout' = Append(stdout, output_deny(r.ret[1], ""))
                      /\ Finish("clean")
                      /\ UNCHANGED <<inners, idx>>
                 ELSE /\ inners' = extract_inner_commands(command)
                      /\ idx' = 1
                      /\ pc' = "inner"
                      /\ UNCHANGED <<stdout, exit>>
  /\ UNCHANGED <<stdin, rulefile, loaded, command, warnLog>>

\* check_bash: one iteration of the loop over the inner commands
check_bash_inner ==
  /\ pc = "inner"
  /\ IF idx > Len(inners)
     THEN /\ pc' = "warn"
          /\ UNCHANGED <<stdout, exit, denyLog, idx>>
     ELSE LET r == check_deny(inners[idx], rulefile)
          IN  /\ denyLog' = Append(denyLog, LogEntry(inners[idx], r))
              /\ IF Truthy(r.ret)
                 THEN /\ stdout' = Append(stdout, output_deny(r.ret[1], WrapperSuffix))
                      /\ Finish("clean")
                      /\ idx' = idx
                 ELSE /\ idx' = idx + 1
                      /\ UNCHANGED <<stdout, exit, pc>>
  /\ UNCHANGED <<stdin, rulefile, loaded, command, inners, warnLog>>

\* check_bash: the warn_commands loop
check_bash_warn ==
  /\ pc = "warn"
  /\ LET w == first_warn(1, command, rulefile.warn_commands, "regex")
     IN  /\ warnLog' = Append(warnLog, command)
         /\ stdout' = IF w = 0 THEN stdout
                      ELSE Append(stdout, output_warn(rulefile.warn_commands[w].message))
  /\ Finish("clean")
  /\ UNCHANGED <<stdin, rulefile, loaded, command, inners, idx, denyLog>>

\* check_file: rules.get("warn_files", []) needs a dict
check_file ==
  /\ pc = "check_file"
  /\ IF rulefile.kind # "dict"
     THEN /\ Finish("failed")
          /\ UNCHANGED <<stdout, warnLog>>
     ELSE LET w == first_warn(1, command, rulefile.warn_files, "pattern")
          IN  /\ warnLog' = Append(warnLog, command)
              /\ stdout' = IF w = 0 THEN stdout
                           ELSE Append(stdout, output_warn(rulefile.warn_files[w].message))
              /\ Finish("clean")
  /\ UNCHANGED <<stdin, rulefile, loaded, command, inners, idx, denyLog>>

Next ==
  \/ main_read_input
  \/ main_get_fields
  \/ main_load_rules
  \/ main_dispatch
  \/ check_bash_full
  \/ check_bash_inner
  \/ check_bash_warn
  \/ check_file

Spec == Init /\ [][Next]_vars

----------------------------------------------------------------------------
\* Vocabulary of the properties

Done == pc = "done"

ObjectEvent == stdin.kind = "object"

\* a Bash event with a non-empty command, evaluated against a rule set with a deny list
BashRun ==
  /\ ObjectEvent
  /\ stdin.tool_name = "Bash"
  /\ stdin.tool_input = "mapping"
  /\ stdin.command # <<>>
  /\ can_deny(rulefile)

IsDeny == Len(stdout) = 1 /\ stdout[1].permissionDecision = "deny"

IsWarn == Len(stdout) = 1 /\ stdout[1].permissionDecision = "none"

IsAllow == stdout = <<>> /\ exit = "clean"

Matching(text) == {i \in 1..Len(rulefile.deny) : re_search(rulefile.deny[i].regex, text)}

Min(S) == CHOOSE x \in S : \A y \in S : x <= y

FirstMatch(text) == IF Matching(text) = {} THEN 0 ELSE Min(Matching(text))

Overridden(i, text) ==
  rulefile.deny[i].reason = DeletionReason /\ override(text, rulefile)

\* a recursive rm (one of the four flag forms) of a target no allowlist entry names
HasUnsafeRm(text) ==
  \E f \in RmFlagForms :
    \E i \in 1..Len(text) :
      LET pat == <<W("rm")>> \o f
          p   == i + Len(pat)
      IN  /\ Occurs(pat, text, i)
          /\ p <= Len(text)
          /\ \A k \in 1..Len(rulefile.safe_rm_targets) :
               ~path_hits(text[p], rulefile.safe_rm_targets[k])

InnerDenied(k) == check_deny(extract_inner_commands(stdin.command)[k], rulefile).ret # None

LogTexts == [k \in 1..Len(denyLog) |-> denyLog[k].text]

----------------------------------------------------------------------------
\* C1: a Bash command that matches the pattern of a deny rule to which the
\* allowlist override does not apply ends in Deny, wherever the rule sits in
\* the deny list.
C1_UnoverriddenMatchDenies ==
  (Done /\ BashRun /\ \E i \in Matching(stdin.command) : ~Overridden(i, stdin.command))
    => IsDeny

\* C2: when the first matching rule is the deletion rule and an allowlisted
\* target is found, check_deny goes on and returns the reason of the first
\* later deny rule that matches, None only if no later rule matches.
C2_OverrideContinues ==
  \A e \in 1..Len(denyLog) :
    LET t == denyLog[e].text
        f == FirstMatch(t)
        later == {j \in Matching(t) : j > f /\ ~Overridden(j, t)}
    IN  (f # 0 /\ Overridden(f, t))
          => denyLog[e].ret =
               (IF later = {} THEN None ELSE Some(rulefile.deny[Min(later)].reason))

\* C3: when the deletion rule is the one check_deny reaches and the command
\* holds a recursive rm of a target that is not allowlisted, the deletion
\* reason is returned, also when another rm names an allowlisted target.
C3_UnsafeTargetNotOverridden ==
  \A e \in 1..Len(denyLog) :
    LET t == denyLog[e].text
        f == FirstMatch(t)
    IN  (f # 0 /\ rulefile.deny[f].reason = DeletionReason /\ HasUnsafeRm(t))
          => denyLog[e].ret = Some(DeletionReason)

\* C4: a denied full command gives Deny without suffix and no inner command
\* is evaluated; otherwise the first inner command (in extraction order) for
\* which check_deny returns a reason gives Deny with that reason and the
\* wrapper suffix, and no later inner command is evaluated.
C4_InnerDenyOrder ==
  (Done /\ BashRun) =>
    LET full == check_deny(stdin.command, rulefile).ret
        ins  == extract_inner_commands(stdin.command)
        hits == {k \in 1..Len(ins) : InnerDenied(k)}
    IN  IF full # None
        THEN /\ stdout = <<output_deny(full[1], "")>>
             /\ LogTexts = <<stdin.command>>
        ELSE hits # {} =>
               /\ stdout = <<output_deny(check_deny(ins[Min(hits)], rulefile).ret[1],
                                         WrapperSuffix)>>
               /\ LogTexts = <<stdin.command>> \o SubSeq(ins, 1, Min(hits))

\* C5: warn rules are consulted only after check_deny returned None for the
\* full command and every inner command; a Warn is the message of the first
\* warn_commands rule matching the full command; a command that check_deny
\* denies and a warn rule matches ends in Deny; inner commands are never
\* warn-checked.
C5_WarnAfterDeny ==
  (Done /\ BashRun) =>
    LET ins == extract_inner_commands(stdin.command)
        w   == first_warn(1, stdin.command, rulefile.warn_commands, "regex")
    IN  /\ warnLog # <<>> =>
             /\ LogTexts = <<stdin.command>> \o ins
             /\ \A e \in 1..Len(denyLog) : denyLog[e].ret = None
        /\ warnLog \in {<<>>, <<stdin.command>>}
        /\ IsWarn => (w # 0 /\ stdout[1] = output_warn(rulefile.warn_commands[w].message))
        /\ (w = 0 /\ ~IsDeny) => IsAllow
        /\ (w # 0 /\ check_deny(stdin.command, rulefile).ret # None) => IsDeny

\* C6: check_deny stops at the first rule whose pattern matches: no later
\* rule is evaluated, and a returned reason is that of this first rule.
C6_FirstMatchWins ==
  \A e \in 1..Len(denyLog) :
    LET t == denyLog[e].text
        f == FirstMatch(t)
    IN  IF f = 0
        THEN denyLog[e].ret = None /\ denyLog[e].n = Len(rulefile.deny)
        ELSE /\ denyLog[e].n = f
             /\ denyLog[e].ret \in {None, Some(rulefile.deny[f].reason)}

\* two rules with different reasons match the same command and one is returned
C6_Witness ==
  \E e \in 1..Len(denyLog) :
    /\ denyLog[e].ret # None
    /\ \E i, j \in Matching(denyLog[e].text) :
         i < j /\ rulefile.deny[i].reason # rulefile.deny[j].reason

\* C7: with a loadable rule file, a malformed input envelope ends the run
\* cleanly, with no output and no uncaught error.
Malformed ==
  \/ stdin.kind \in {"unparsable", "nonobject"}
  \/ stdin.tool_name = ""
  \/ stdin.tool_input \in {"missing", "nonmapping"}

C7_MalformedExitsCleanly ==
  (load_rules_ok(rulefile) /\ Malformed) =>
    /\ exit # "failed"
    /\ stdout = <<>>
    /\ Done => exit = "clean"

\* C8: with an input envelope that is an object, a rule file that is missing,
\* not valid JSON or without a deny list ends the run in a failure with no
\* verdict written, for every tool kind; rules are loaded before the event
\* is classified.
BadRuleFile == ~load_rules_ok(rulefile) \/ ~can_deny(rulefile)

C8_ConfigErrorIsFatal ==
  /\ (ObjectEvent /\ BadRuleFile) => (stdout = <<>> /\ (Done => exit = "failed"))
  /\ pc \in {"dispatch", "check_bash", "inner", "warn", "check_file"} => loaded

\* C9: with a loaded rule set of any content, an unrecognized tool kind, a
\* Bash event without command text and a Read/Edit/Write event without path
\* text end in Allow with no output, and no deny or warn rule is evaluated.
NothingToCheck ==
  /\ ObjectEvent
  /\ \/ stdin.tool_name \notin ({"Bash"} \cup FileTools)
     \/ /\ stdin.tool_input # "nonmapping"
        /\ stdin.tool_name = "Bash" => stdin.command = <<>>
        /\ stdin.tool_name \in FileTools => stdin.file_path = <<>>

C9_NothingToCheckAllows ==
  (loaded /\ NothingToCheck) =>
    /\ stdout = <<>>
    /\ denyLog = <<>>
    /\ warnLog = <<>>
    /\ pc \in {"dispatch", "done"}
    /\ exit # "failed"
    /\ Done => exit = "clean"

C9_Witness ==
  /\ Done
  /\ loaded
  /\ NothingToCheck
  /\ stdin.tool_name = "Bash"
  /\ Len(rulefile.deny) = MaxDeny
  /\ rulefile.warn_commands # <<>>
  /\ IsAllow

\* C10: whenever check_deny returns a reason, the empty string included, the
\* run ends there with a Deny record: no inner command, warn rule or Allow
\* follows.
C10_EveryReasonDenies ==
  \A e \in 1..Len(denyLog) :
    denyLog[e].ret # None =>
      /\ e = Len(denyLog)
      /\ IsDeny
      /\ warnLog = <<>>
      /\ Done

====
